---------------------------- MODULE Spec2Model ----------------------------
(***************************************************************************)
(* concordium-schema-decoder: the schema parser entry point, the JSON      *)
(* projection of a decoded module schema, and the HTTP handler that chains *)
(* them (src/concordium-schema-decoder/src/schema.rs and main.rs).         *)
(*                                                                         *)
(* Rust strings are sequences of bytes (their UTF-8 encoding), ordered     *)
(* bytewise as Rust's Ord for String orders them.  A Result is a record    *)
(* [ok |-> TRUE, v |-> value] or [ok |-> FALSE, e |-> error].  A BTreeMap  *)
(* and a serde_json::Map are sequences of <<key, value>> pairs kept in     *)
(* strictly increasing key order, which is their iteration order.          *)
(***************************************************************************)
EXTENDS Integers, Sequences, FiniteSets, TLC

(***************************************************************************)
(* Bounds of the model.                                                    *)
(***************************************************************************)
MaxEntrypoints == 2
MaxContracts == 2

(***************************************************************************)
(* Results, options, strings.                                              *)
(***************************************************************************)
Ok(x) == [ok |-> TRUE, v |-> x]

Err(x) == [ok |-> FALSE, e |-> x]

None == [some |-> FALSE]

Some(x) == [some |-> TRUE, v |-> x]

Opt(S) == {None} \cup {Some(x) : x \in S}

\* Ord for String: bytewise lexicographic, a proper prefix comes first.
RECURSIVE StrLess(_, _)
StrLess(a, b) ==
    IF b = <<>> THEN FALSE
    ELSE IF a = <<>> THEN TRUE
    ELSE IF Head(a) # Head(b) THEN Head(a) < Head(b)
    ELSE StrLess(Tail(a), Tail(b))

\* The string literals of schema.rs that are used as JSON object keys.
KeyInit == <<105, 110, 105, 116>>

KeyState == <<115, 116, 97, 116, 101>>

KeyEvent == <<101, 118, 101, 110, 116>>

KeyEntrypoints == <<101, 110, 116, 114, 121, 112, 111, 105, 110, 116, 115>>

KeyParameter == <<112, 97, 114, 97, 109, 101, 116, 101, 114>>

KeyReturnValue == <<114, 101, 116, 117, 114, 110, 86, 97, 108, 117, 101>>

KeyError == <<101, 114, 114, 111, 114>>

(***************************************************************************)
(* Ordered maps: BTreeMap<String, V> and serde_json::Map<String, Value>.   *)
(***************************************************************************)
MapKeys(m) == [i \in 1..Len(m) |-> m[i][1]]

MapKeySet(m) == {m[i][1] : i \in 1..Len(m)}

MapHas(m, k) == \E i \in 1..Len(m) : m[i][1] = k

MapGet(m, k) == m[CHOOSE i \in 1..Len(m) : m[i][1] = k][2]

\* insert: replaces the value of a key already there, else puts the entry at
\* its place in key order.
MapInsert(m, k, x) ==
    IF MapHas(m, k)
    THEN [i \in 1..Len(m) |-> IF m[i][1] = k THEN <<k, x>> ELSE m[i]]
    ELSE LET below == SelectSeq(m, LAMBDA p : StrLess(p[1], k))
             above == SelectSeq(m, LAMBDA p : StrLess(k, p[1]))
         IN  below \o <<<<k, x>>>> \o above

(***************************************************************************)
(* serde_json::Value: the two shapes the projection builds.                *)
(***************************************************************************)
JString(s) == [j |-> "String", s |-> s]

JObject(m) == [j |-> "Object", m |-> m]

\* Value::Object(serde_json::Map::new())
EmptyObject == JObject(<<>>)

\* value[key] = x on an object: IndexMut inserts the key or overwrites it.
JsonSet(value, key, x) == JObject(MapInsert(value.m, key, x))

(***************************************************************************)
(* schema::Type, as the projection matches on it.                          *)
(***************************************************************************)
PrimitiveTags ==
    {"Unit", "Bool", "U8", "U16", "U32", "U64", "U128", "I8", "I16", "I32",
     "I64", "I128", "Amount", "AccountAddress", "ContractAddress",
     "Timestamp", "Duration"}

CompositeTags ==
    {"Pair", "List", "Set", "Map", "Array", "Struct", "Enum", "String",
     "ContractName", "ReceiveName", "ULeb128", "ILeb128", "ByteList",
     "ByteArray", "TaggedEnum"}

\* SerializableType::serialize: one arm per variant, each a string.
serialize(t) ==
    CASE t.tag = "Unit" -> JString("unit")
      [] t.tag = "Bool" -> JString("bool")
      [] t.tag = "U8" -> JString("u8")
      [] t.tag = "U16" -> JString("u16")
      [] t.tag = "U32" -> JString("u32")
      [] t.tag = "U64" -> JString("u64")
      [] t.tag = "U128" -> JString("u128")
      [] t.tag = "I8" -> JString("i8")
      [] t.tag = "I16" -> JString("i16")
      [] t.tag = "I32" -> JString("i32")
      [] t.tag = "I64" -> JString("i64")
      [] t.tag = "I128" -> JString("i128")
      [] t.tag = "Amount" -> JString("amount")
      [] t.tag = "AccountAddress" -> JString("account_address")
      [] t.tag = "ContractAddress" -> JString("contract_address")
      [] t.tag = "Timestamp" -> JString("timestamp")
      [] t.tag = "Duration" -> JString("duration")
      [] t.tag = "Pair" -> JString("pair...")
      [] t.tag = "List" -> JString("list...")
      [] t.tag = "Set" -> JString("set...")
      [] t.tag = "Map" -> JString("map...")
      [] t.tag = "Array" -> JString("array...")
      [] t.tag = "Struct" -> JString("struct...")
      [] t.tag = "Enum" -> JString("enum...")
      [] t.tag = "String" -> JString("string...")
      [] t.tag = "ContractName" -> JString("contract_name...")
      [] t.tag = "ReceiveName" -> JString("receive_name...")
      [] t.tag = "ULeb128" -> JString("uleb128...")
      [] t.tag = "ILeb128" -> JString("ileb128...")
      [] t.tag = "ByteList" -> JString("byte_list...")
      [] t.tag = "ByteArray" -> JString("byte_array...")
      [] t.tag = "TaggedEnum" -> JString("tagged_enum...")

\* serde_json::to_value(SerializableType(t)).context(..): serialize_str into
\* a Value never fails, so the context is never attached.
type_to_json(t) == Ok(serialize(t))

(***************************************************************************)
(* The statements the contract and function projections are made of.       *)
(***************************************************************************)
\* object[key] = r?; on the object made so far: the failure r is returned,
\* else its value is put under the key.
Put(acc, key, r) == IF r.ok THEN Ok(JsonSet(acc.v, key, r.v)) ELSE r

\* if let Some(x) = &opt { object[key] = type_to_json(x)?; }
SetType(acc, opt, key) ==
    IF ~acc.ok THEN acc
    ELSE IF ~opt.some THEN acc
    ELSE Put(acc, key, type_to_json(opt.v))

\* Mutant: the error schema is left out.
function_v2_schema_no_error(schema) ==
    LET a1 == SetType(Ok(EmptyObject), schema.parameter, KeyParameter)
    IN  SetType(a1, schema.return_value, KeyReturnValue)

function_v1_schema(schema) ==
    LET a1 == SetType(Ok(EmptyObject), schema.parameter, KeyParameter)
    IN  SetType(a1, schema.return_value, KeyReturnValue)

function_v2_schema(schema) ==
    LET a1 == SetType(Ok(EmptyObject), schema.parameter, KeyParameter)
        a2 == SetType(a1, schema.return_value, KeyReturnValue)
    IN  SetType(a2, schema.error, KeyError)

\* The function a contract projection applies to its init schema and to each
\* of its entrypoints, by name.
Project(f, x) ==
    CASE f = "type_to_json" -> type_to_json(x)
      [] f = "function_v1_schema" -> function_v1_schema(x)
      [] f = "function_v2_schema" -> function_v2_schema(x)

\* if let Some(init_schema) = &contract_schema.init
\* { schema_json["init"] = f(init_schema)?; }
SetInit(acc, opt, f) ==
    IF ~acc.ok THEN acc
    ELSE IF ~opt.some THEN acc
    ELSE Put(acc, KeyInit, Project(f, opt.v))

RECURSIVE InsertAll(_, _)
InsertAll(m, pairs) ==
    IF pairs = <<>> THEN m
    ELSE InsertAll(MapInsert(m, Head(pairs)[1], Head(pairs)[2]), Tail(pairs))

\* The results rs of the values of an ordered map, taken in key order: the
\* first failure, or else the keys with the values made (the ? in a loop
\* body, collect() into a Result).
Collect(map, rs) ==
    IF \E i \in 1..Len(map) : ~rs[i].ok
    THEN rs[CHOOSE i \in 1..Len(map) :
                ~rs[i].ok /\ \A k \in 1..(i - 1) : rs[k].ok]
    ELSE Ok([i \in 1..Len(map) |-> <<map[i][1], rs[i].v>>])

\* The object with the entries collected, or the failure.
ObjectOf(r) == IF r.ok THEN Ok(JObject(InsertAll(<<>>, r.v))) ELSE r

\* if !receive.is_empty() { entrypoints = {}; for (name, s) in receive.iter()
\* { entrypoints[name] = f(s)?; } object["entrypoints"] = entrypoints; }
AddEntrypoints(acc, receive, f) ==
    IF ~acc.ok THEN acc
    ELSE IF receive = <<>> THEN acc
    ELSE Put(acc, KeyEntrypoints,
             ObjectOf(Collect(receive,
                 [i \in 1..Len(receive) |-> Project(f, receive[i][2])])))

\* Mutant: the entrypoints object is made anew for each entrypoint, so that
\* only the last one stays.
schema_to_json_v0_last_entrypoint(contract_schema) ==
    LET a1 == SetInit(Ok(EmptyObject), contract_schema.init, "type_to_json")
        a2 == SetType(a1, contract_schema.state, KeyState)
        last == [i \in {1} \cap DOMAIN contract_schema.receive |->
                    contract_schema.receive[Len(contract_schema.receive)]]
    IN  AddEntrypoints(a2, last, "type_to_json")

schema_to_json_v0(contract_schema) ==
    LET a1 == SetInit(Ok(EmptyObject), contract_schema.init, "type_to_json")
        a2 == SetType(a1, contract_schema.state, KeyState)
    IN  AddEntrypoints(a2, contract_schema.receive, "type_to_json")

\* Mutant: the entrypoints object is added without the is_empty test.
schema_to_json_v1_always_entrypoints(contract_schema) ==
    LET a1 == SetInit(Ok(EmptyObject), contract_schema.init, "function_v1_schema")
    IN  IF ~a1.ok THEN a1
        ELSE Put(a1, KeyEntrypoints,
                 ObjectOf(Collect(contract_schema.receive,
                     [i \in 1..Len(contract_schema.receive) |->
                        function_v1_schema(contract_schema.receive[i][2])])))

schema_to_json_v1(contract_schema) ==
    LET a1 == SetInit(Ok(EmptyObject), contract_schema.init, "function_v1_schema")
    IN  AddEntrypoints(a1, contract_schema.receive, "function_v1_schema")

schema_to_json_v2(contract_schema) ==
    LET a1 == SetInit(Ok(EmptyObject), contract_schema.init, "function_v2_schema")
    IN  AddEntrypoints(a1, contract_schema.receive, "function_v2_schema")

\* Mutant: the event schema is left out, as for a V2 contract.
schema_to_json_v3_no_event(contract_schema) ==
    LET a1 == SetInit(Ok(EmptyObject), contract_schema.init, "function_v2_schema")
    IN  AddEntrypoints(a1, contract_schema.receive, "function_v2_schema")

schema_to_json_v3(contract_schema) ==
    LET a1 == SetInit(Ok(EmptyObject), contract_schema.init, "function_v2_schema")
        a2 == SetType(a1, contract_schema.event, KeyEvent)
    IN  AddEntrypoints(a2, contract_schema.receive, "function_v2_schema")

\* The contract projection try_map_values is given, by name.
ProjectContract(f, x) ==
    CASE f = "schema_to_json_v0" -> schema_to_json_v0(x)
      [] f = "schema_to_json_v1" -> schema_to_json_v1(x)
      [] f = "schema_to_json_v2" -> schema_to_json_v2(x)
      [] f = "schema_to_json_v3" -> schema_to_json_v3(x)

\* map.into_iter().map(|(k, v)| Ok((k, f(v)?))).collect()
try_map_values(map, f) ==
    Collect(map, [i \in 1..Len(map) |-> ProjectContract(f, map[i][2])])

\* serde_json::to_value of a BTreeMap<&String, Value>: an object with the
\* map's entries; with string keys it cannot fail.
schema_to_json(schema) ==
    ObjectOf(CASE schema.version = "V0" ->
                      try_map_values(schema.contracts, "schema_to_json_v0")
               [] schema.version = "V1" ->
                      try_map_values(schema.contracts, "schema_to_json_v1")
               [] schema.version = "V2" ->
                      try_map_values(schema.contracts, "schema_to_json_v2")
               [] schema.version = "V3" ->
                      try_map_values(schema.contracts, "schema_to_json_v3"))

(***************************************************************************)
(* The wire format read by from_bytes (spec sections 4.1 to 4.4 and 6).    *)
(* A reader takes the bytes and the cursor (the index of the next byte)    *)
(* and returns [ok |-> TRUE, v |-> value, pos |-> cursor after it] or an   *)
(* error; the cursor only moves forward.  T names what is read.            *)
(*   Where the spec leaves the layout open the decoder library's is used:  *)
(* lengths and counts are u32 little-endian, a presence flag is 0 or 1 and *)
(* any other byte is InvalidPresenceFlag, a repeated map key is malformed. *)
(***************************************************************************)
Read(x, p) == [ok |-> TRUE, v |-> x, pos |-> p]

Kind(g) == [g |-> g]

Of(g, T) == [g |-> g, of |-> T]

TypeTags ==
    <<"Unit", "Bool", "U8", "U16", "U32", "U64", "I8", "I16", "I32", "I64",
      "Amount", "AccountAddress", "ContractAddress", "Timestamp", "Duration",
      "Pair", "List", "Set", "Map", "Array", "Struct", "Enum", "String",
      "U128", "I128", "ContractName", "ReceiveName", "ULeb128", "ILeb128",
      "ByteList", "ByteArray", "TaggedEnum">>

\* The fields a record of kind g is read from, in wire order.
Layout(g) ==
    CASE g = "FunctionV1" -> <<Of("Option", Kind("Type")), Of("Option", Kind("Type"))>>
      [] g = "FunctionV2" -> <<Of("Option", Kind("Type")), Of("Option", Kind("Type")),
                               Of("Option", Kind("Type"))>>
      [] g = "ContractV0" -> <<Of("Option", Kind("Type")), Of("Option", Kind("Type")),
                               Of("Map", Kind("Type"))>>
      [] g = "ContractV1" -> <<Of("Option", Kind("FunctionV1")),
                               Of("Map", Kind("FunctionV1"))>>
      [] g = "ContractV2" -> <<Of("Option", Kind("FunctionV2")),
                               Of("Map", Kind("FunctionV2"))>>
      [] g = "ContractV3" -> <<Of("Option", Kind("FunctionV2")),
                               Of("Option", Kind("Type")),
                               Of("Map", Kind("FunctionV2"))>>
      [] g = "Named" -> <<Kind("String"), Kind("Type")>>
      [] g = "Variant" -> <<Kind("String"), Kind("Fields")>>
      [] g = "TaggedVariant" -> <<Kind("u8"), Kind("String"), Kind("Fields")>>

\* The record of kind g made of the fields read.
Build(g, f) ==
    CASE g = "FunctionV1" -> [parameter |-> f[1], return_value |-> f[2]]
      [] g = "FunctionV2" -> [parameter |-> f[1], return_value |-> f[2], error |-> f[3]]
      [] g = "ContractV0" -> [init |-> f[1], state |-> f[2], receive |-> f[3]]
      [] g = "ContractV1" -> [init |-> f[1], receive |-> f[2]]
      [] g = "ContractV2" -> [init |-> f[1], receive |-> f[2]]
      [] g = "ContractV3" -> [init |-> f[1], event |-> f[2], receive |-> f[3]]
      [] OTHER -> f

\* The payload that follows the tag byte of a type, and the type it makes.
TypeLayout(tag) ==
    CASE tag = "Pair" -> <<Kind("Type"), Kind("Type")>>
      [] tag \in {"List", "Set"} -> <<Kind("SizeLength"), Kind("Type")>>
      [] tag = "Map" -> <<Kind("SizeLength"), Kind("Type"), Kind("Type")>>
      [] tag = "Array" -> <<Kind("u32"), Kind("Type")>>
      [] tag = "Struct" -> <<Kind("Fields")>>
      [] tag = "Enum" -> <<Of("Vec", Kind("Variant"))>>
      [] tag \in {"String", "ContractName", "ReceiveName", "ByteList"} ->
           <<Kind("SizeLength")>>
      [] tag \in {"ULeb128", "ILeb128"} -> <<Kind("u8")>>
      [] tag = "ByteArray" -> <<Kind("u32")>>
      [] tag = "TaggedEnum" -> <<Of("Vec", Kind("TaggedVariant"))>>
      [] OTHER -> <<>>

BuildType(tag, f) ==
    CASE tag = "Pair" -> [tag |-> tag, fst |-> f[1], snd |-> f[2]]
      [] tag \in {"List", "Set"} -> [tag |-> tag, size |-> f[1], elem |-> f[2]]
      [] tag = "Map" -> [tag |-> tag, size |-> f[1], key |-> f[2], value |-> f[3]]
      [] tag = "Array" -> [tag |-> tag, len |-> f[1], elem |-> f[2]]
      [] tag = "Struct" -> [tag |-> tag, fields |-> f[1]]
      [] tag \in {"Enum", "TaggedEnum"} -> [tag |-> tag, variants |-> f[1]]
      [] tag \in {"String", "ContractName", "ReceiveName", "ByteList"} ->
           [tag |-> tag, size |-> f[1]]
      [] tag \in {"ULeb128", "ILeb128"} -> [tag |-> tag, constraint |-> f[1]]
      [] tag = "ByteArray" -> [tag |-> tag, len |-> f[1]]
      [] OTHER -> [tag |-> tag]

\* The variants of a tagged enum are keyed by their tag: in tag order, and no
\* tag twice.
TagsDistinct(vs) == \A i, k \in 1..Len(vs) : vs[i][1] = vs[k][1] => i = k

RECURSIVE ByTag(_)
ByTag(vs) ==
    IF vs = <<>> THEN <<>>
    ELSE LET i == CHOOSE i \in 1..Len(vs) : \A k \in 1..Len(vs) : vs[i][1] <= vs[k][1]
         IN  <<vs[i]>> \o ByTag([k \in 1..(Len(vs) - 1) |-> IF k < i THEN vs[k] ELSE vs[k + 1]])

RECURSIVE Deserial(_, _, _), DeserialAll(_, _, _, _), DeserialN(_, _, _, _, _), DeserialMap(_, _, _, _, _)
Deserial(T, b, p) ==
    CASE T.g = "u8" ->
           IF p <= Len(b) THEN Read(b[p], p + 1) ELSE Err("UnexpectedEndOfInput")
      [] T.g = "u16" ->
           IF p + 1 <= Len(b) THEN Read(b[p] + 256 * b[p + 1], p + 2)
           ELSE Err("UnexpectedEndOfInput")
      [] T.g = "u32" ->
           IF p + 3 <= Len(b)
           THEN Read(b[p] + 256 * b[p + 1] + 65536 * b[p + 2] + 16777216 * b[p + 3], p + 4)
           ELSE Err("UnexpectedEndOfInput")
      [] T.g = "String" ->
           LET n == Deserial(Kind("u32"), b, p)
           IN  IF ~n.ok THEN n
               ELSE IF n.pos + n.v - 1 > Len(b) THEN Err("UnexpectedEndOfInput")
               ELSE LET str == SubSeq(b, n.pos, n.pos + n.v - 1)
                    IN  IF \E i \in 1..Len(str) : str[i] >= 128
                        THEN Err("MalformedSchema")
                        ELSE Read(str, n.pos + n.v)
      [] T.g = "SizeLength" ->
           LET c == Deserial(Kind("u8"), b, p)
           IN  IF ~c.ok THEN c
               ELSE (CASE c.v = 0 -> Read("U8", c.pos)
                       [] c.v = 1 -> Read("U16", c.pos)
                       [] c.v = 2 -> Read("U32", c.pos)
                       [] OTHER -> Err("MalformedSchema"))
      [] T.g = "Option" ->
           LET flag == Deserial(Kind("u8"), b, p)
           IN  IF ~flag.ok THEN flag
               ELSE (CASE flag.v = 0 -> Read(None, flag.pos)
                       [] flag.v = 1 ->
                            (LET x == Deserial(T.of, b, flag.pos)
                             IN  IF x.ok THEN Read(Some(x.v), x.pos) ELSE x)
                       [] OTHER -> Err("InvalidPresenceFlag"))
      [] T.g = "Vec" ->
           LET n == Deserial(Kind("u32"), b, p)
           IN  IF n.ok THEN DeserialN(T.of, n.v, b, n.pos, <<>>) ELSE n
      [] T.g = "Map" ->
           LET n == Deserial(Kind("u32"), b, p)
           IN  IF n.ok THEN DeserialMap(T.of, n.v, b, n.pos, <<>>) ELSE n
      [] T.g = "Fields" ->
           LET d == Deserial(Kind("u8"), b, p)
           IN  IF ~d.ok THEN d
               ELSE (CASE d.v = 0 ->
                            (LET l == Deserial(Of("Vec", Kind("Named")), b, d.pos)
                             IN  IF l.ok
                                 THEN Read([fields |-> "Named", list |-> l.v], l.pos)
                                 ELSE l)
                       [] d.v = 1 ->
                            (LET l == Deserial(Of("Vec", Kind("Type")), b, d.pos)
                             IN  IF l.ok
                                 THEN Read([fields |-> "Unnamed", list |-> l.v], l.pos)
                                 ELSE l)
                       [] d.v = 2 -> Read([fields |-> "None"], d.pos)
                       [] OTHER -> Err("MalformedSchema"))
      [] T.g = "Type" ->
           LET t == Deserial(Kind("u8"), b, p)
           IN  IF ~t.ok THEN t
               ELSE IF t.v >= Len(TypeTags) THEN Err("UnknownTypeTag")
               ELSE LET tag == TypeTags[t.v + 1]
                        f == DeserialAll(TypeLayout(tag), b, t.pos, <<>>)
                    IN  IF ~f.ok THEN f
                        ELSE IF tag = "TaggedEnum" /\ ~TagsDistinct(f.v[1])
                        THEN Err("MalformedSchema")
                        ELSE IF tag = "TaggedEnum"
                        THEN Read(BuildType(tag, <<ByTag(f.v[1])>>), f.pos)
                        ELSE Read(BuildType(tag, f.v), f.pos)
      [] T.g = "Module" ->
           LET m == Deserial(Of("Map", T.of), b, p)
           IN  IF m.ok THEN Read([contracts |-> m.v], m.pos) ELSE m
      [] T.g = "VersionedModuleSchema" ->
           LET prefix == Deserial(Kind("u16"), b, p)
               version == Deserial(Kind("u8"), b, prefix.pos)
               body == Deserial(Of("Module", Kind(<<"ContractV0", "ContractV1", "ContractV2",
                                                    "ContractV3">>[version.v + 1])),
                                b, version.pos)
           IN  IF ~prefix.ok THEN prefix
               ELSE IF prefix.v # 65535 THEN Err("MalformedSchema")
               ELSE IF ~version.ok THEN version
               ELSE IF version.v > 3 THEN Err("MalformedSchema")
               ELSE IF ~body.ok THEN body
               ELSE Read([version |-> <<"V0", "V1", "V2", "V3">>[version.v + 1],
                          contracts |-> body.v.contracts], body.pos)
      [] OTHER ->
           LET f == DeserialAll(Layout(T.g), b, p, <<>>)
           IN  IF f.ok THEN Read(Build(T.g, f.v), f.pos) ELSE f

\* The values of the kinds Ts, one after the other.
DeserialAll(Ts, b, p, acc) ==
    IF Ts = <<>> THEN Read(acc, p)
    ELSE LET x == Deserial(Head(Ts), b, p)
         IN  IF x.ok THEN DeserialAll(Tail(Ts), b, x.pos, Append(acc, x.v)) ELSE x

\* n values of kind T.
DeserialN(T, n, b, p, acc) ==
    IF n = 0 THEN Read(acc, p)
    ELSE LET x == Deserial(T, b, p)
         IN  IF x.ok THEN DeserialN(T, n - 1, b, x.pos, Append(acc, x.v)) ELSE x

\* n (name, T) pairs, put in a map in the order read.
DeserialMap(T, n, b, p, acc) ==
    IF n = 0 THEN Read(acc, p)
    ELSE LET k == Deserial(Kind("String"), b, p)
             x == Deserial(T, b, k.pos)
         IN  IF ~k.ok THEN k
             ELSE IF ~x.ok THEN x
             ELSE IF MapHas(acc, k.v) THEN Err("MalformedSchema")
             ELSE DeserialMap(T, n - 1, b, x.pos, MapInsert(acc, k.v, x.v))

\* from_bytes::<T>: a cursor at the first byte; bytes left over are ignored.
from_bytes(T, bytes) ==
    LET r == Deserial(T, bytes, 1)
    IN  IF r.ok THEN Ok(r.v) ELSE r

(***************************************************************************)
(* parse_schema                                                            *)
(***************************************************************************)
VERSIONED_SCHEMA_MAGIC_HASH == <<255, 255>>

starts_with(bytes, prefix) ==
    /\ Len(bytes) >= Len(prefix)
    /\ SubSeq(bytes, 1, Len(prefix)) = prefix

WasmVersions == {"V0", "V1"}

\* A legacy stream read as a module body of generation ver, in that variant.
LegacyAs(ver, bytes) ==
    LET r == from_bytes(Of("Module", Kind(IF ver = "V0" THEN "ContractV0" ELSE "ContractV1")),
                        bytes)
    IN  IF r.ok THEN Ok([version |-> ver, contracts |-> r.v.contracts]) ELSE r

\* Mutant: a legacy stream with no hint is read as generation V0.
parse_schema_default_v0(wasm_version, bytes) ==
    IF starts_with(bytes, VERSIONED_SCHEMA_MAGIC_HASH)
    THEN from_bytes(Kind("VersionedModuleSchema"), bytes)
    ELSE IF wasm_version.some THEN LegacyAs(wasm_version.v, bytes)
    ELSE LegacyAs("V0", bytes)

\* Mutant: the hint is tested before the magic prefix.
parse_schema_hint_first(wasm_version, bytes) ==
    IF wasm_version.some THEN LegacyAs(wasm_version.v, bytes)
    ELSE IF starts_with(bytes, VERSIONED_SCHEMA_MAGIC_HASH)
    THEN from_bytes(Kind("VersionedModuleSchema"), bytes)
    ELSE Err("Legacy unversioned schema was supplied, but no version was provided.")

\* Mutant: a stream that fails to decode yields the default, empty module.
parse_schema_or_default(wasm_version, bytes) ==
    LET r == IF starts_with(bytes, VERSIONED_SCHEMA_MAGIC_HASH)
             THEN from_bytes(Kind("VersionedModuleSchema"), bytes)
             ELSE IF wasm_version.some THEN LegacyAs(wasm_version.v, bytes)
             ELSE Err("Legacy unversioned schema was supplied, but no version was provided.")
    IN  IF r.ok \/ ~(wasm_version.some \/ starts_with(bytes, VERSIONED_SCHEMA_MAGIC_HASH))
        THEN r
        ELSE Ok([version |-> "V0", contracts |-> <<>>])

parse_schema(wasm_version, bytes) ==
    IF starts_with(bytes, VERSIONED_SCHEMA_MAGIC_HASH)
    THEN from_bytes(Kind("VersionedModuleSchema"), bytes)
    ELSE IF wasm_version.some
    THEN (CASE wasm_version.v = "V0" ->
                 (LET r == from_bytes(Of("Module", Kind("ContractV0")), bytes)
                  IN  IF r.ok THEN Ok([version |-> "V0", contracts |-> r.v.contracts])
                      ELSE r)
            [] wasm_version.v = "V1" ->
                 (LET r == from_bytes(Of("Module", Kind("ContractV1")), bytes)
                  IN  IF r.ok THEN Ok([version |-> "V1", contracts |-> r.v.contracts])
                      ELSE r))
    ELSE Err("Legacy unversioned schema was supplied, but no version was provided.")

(***************************************************************************)
(* The values the operations are applied to.                               *)
(***************************************************************************)
\* Contract, entrypoint, field and variant names: "a", "b", "ab", "ba".
Names == {<<97>>, <<98>>, <<97, 98>>, <<98, 97>>}

Prim(tag) == [tag |-> tag]

SizeLengths == {"U8", "U16", "U32"}

LeafTypes ==
    {Prim(tag) : tag \in PrimitiveTags}
    \cup {[tag |-> tag, size |-> sz] :
            tag \in {"String", "ContractName", "ReceiveName", "ByteList"},
            sz \in SizeLengths}
    \cup {[tag |-> tag, constraint |-> c] : tag \in {"ULeb128", "ILeb128"}, c \in {1, 5}}
    \cup {[tag |-> "ByteArray", len |-> n] : n \in {0, 32}}

FieldsOver(T) ==
    {[fields |-> "None"]}
    \cup {[fields |-> "Named", list |-> l] :
            l \in {<<>>} \cup {<<<<n, t>>>> : n \in {<<97>>, <<98>>}, t \in T}}
    \cup {[fields |-> "Unnamed", list |-> l] :
            l \in {<<>>} \cup {<<t>> : t \in T} \cup {<<t, u>> : t \in T, u \in T}}

CompositesOver(T) ==
    {[tag |-> "Pair", fst |-> a, snd |-> b] : a \in T, b \in T}
    \cup {[tag |-> tag, size |-> sz, elem |-> a] :
            tag \in {"List", "Set"}, sz \in SizeLengths, a \in T}
    \cup {[tag |-> "Map", size |-> sz, key |-> a, value |-> b] :
            sz \in SizeLengths, a \in T, b \in T}
    \cup {[tag |-> "Array", len |-> n, elem |-> a] : n \in {0, 32}, a \in T}
    \cup {[tag |-> "Struct", fields |-> f] : f \in FieldsOver(T)}
    \cup {[tag |-> "Enum", variants |-> vs] :
            vs \in {<<>>} \cup {<<<<n, f>>>> : n \in {<<97>>, <<98>>}, f \in FieldsOver(T)}}
    \cup {[tag |-> "TaggedEnum", variants |-> vs] :
            vs \in {<<>>} \cup {<<<<d, <<97>>, f>>>> : d \in {5, 9}, f \in FieldsOver(T)}
                 \cup {<<<<5, <<97>>, [fields |-> "None"]>>,
                         <<9, <<98>>, [fields |-> "Unnamed", list |-> <<t>>]>>>> : t \in T}}

\* Type trees of depth one, two and (a few) three.
Types ==
    LeafTypes
    \cup CompositesOver({Prim("U8"), Prim("Bool")})
    \cup CompositesOver({[tag |-> "Pair", fst |-> Prim("U8"), snd |-> Prim("Bool")],
                         [tag |-> "String", size |-> "U32"]})

\* The types the function and contract schemas below carry.
TypePool ==
    {Prim("U8"), Prim("Unit"),
     [tag |-> "List", size |-> "U16", elem |-> Prim("Bool")]}

\* FunctionV1, by its accessors parameter() and return_value().
FunctionsV1 == [parameter : Opt(TypePool), return_value : Opt(TypePool)]

FunctionsV2 ==
    [parameter : Opt(TypePool), return_value : Opt(TypePool), error : Opt(TypePool)]

FunctionPoolV1 ==
    {f \in FunctionsV1 : /\ f.parameter \in {None, Some(Prim("U8"))}
                         /\ f.return_value \in {None, Some(Prim("Unit"))}}

FunctionPoolV2 ==
    {[parameter |-> None, return_value |-> None, error |-> None],
     [parameter |-> Some(Prim("U8")), return_value |-> None, error |-> Some(Prim("Unit"))],
     [parameter |-> None, return_value |-> Some(Prim("Unit")), error |-> None]}

RECURSIVE SortedSeq(_)
SortedSeq(S) ==
    IF S = {} THEN <<>>
    ELSE LET k == CHOOSE x \in S : \A y \in S : x = y \/ StrLess(x, y)
         IN  <<k>> \o SortedSeq(S \ {k})

\* The BTreeMaps with at most n keys from Names and values from V.
MapsOver(V, n) ==
    UNION {{[i \in 1..Len(SortedSeq(K)) |-> <<SortedSeq(K)[i], g[SortedSeq(K)[i]]>>] :
              g \in [K -> V]} :
           K \in {K \in SUBSET Names : Cardinality(K) <= n}}

ContractsV0 ==
    [init : Opt({Prim("U8")}), state : Opt({Prim("Bool"), Prim("Unit")}),
     receive : MapsOver({Prim("Unit"), [tag |-> "String", size |-> "U8"]}, MaxEntrypoints)]

ContractsV1 ==
    [init : Opt(FunctionPoolV1), receive : MapsOver(FunctionPoolV1, MaxEntrypoints)]

ContractsV2 ==
    [init : Opt(FunctionPoolV2), receive : MapsOver(FunctionPoolV2, MaxEntrypoints)]

ContractsV3 ==
    [init : Opt(FunctionPoolV2), event : Opt({Prim("U8")}),
     receive : MapsOver(FunctionPoolV2, MaxEntrypoints)]

Versions == {"V0", "V1", "V2", "V3"}

\* A few contracts of each generation, for the modules.
ContractPool(version) ==
    CASE version = "V0" ->
           {c \in ContractsV0 : /\ c.init = None
                                /\ c.state # Some(Prim("Unit"))
                                /\ MapKeySet(c.receive) \in {{}, {<<98>>}}
                                /\ \A i \in 1..Len(c.receive) : c.receive[i][2] = Prim("Unit")}
      [] version = "V1" ->
           {c \in ContractsV1 : /\ c.init \in {None, Some([parameter |-> Some(Prim("U8")),
                                                           return_value |-> None])}
                                /\ c.receive = <<>>}
      [] version = "V2" ->
           {c \in ContractsV2 : /\ c.init = None
                                /\ MapKeySet(c.receive) \in {{}, {<<97>>}}}
      [] version = "V3" ->
           {c \in ContractsV3 : /\ c.init = None
                                /\ c.receive = <<>>}

Modules ==
    UNION {[version : {ver}, contracts : MapsOver(ContractPool(ver), MaxContracts)] :
           ver \in Versions}

(***************************************************************************)
(* The HTTP handler (main.rs).  The request body is a string of ASCII      *)
(* codes; the response body is the JSON text as its sequence of tokens.    *)
(***************************************************************************)
\* The value of a symbol of the standard base64 alphabet, -1 for any other.
Base64Value(c) ==
    CASE c >= 65 /\ c <= 90 -> c - 65
      [] c >= 97 /\ c <= 122 -> c - 71
      [] c >= 48 /\ c <= 57 -> c + 4
      [] c = 43 -> 62
      [] c = 47 -> 63
      [] OTHER -> -1

\* base64::engine::general_purpose::STANDARD.decode: the padding is required
\* and canonical, and the bits left over in the last symbol must be zero.
Base64Decode(data) ==
    LET n == Len(data)
        pad == IF n >= 1 /\ data[n] = 61 THEN (IF n >= 2 /\ data[n - 1] = 61 THEN 2 ELSE 1)
               ELSE 0
        sym == [i \in 1..(n - pad) |-> Base64Value(data[i])]
        quads == (n - pad) \div 4
        rest == (n - pad) % 4
        Group(q) == LET a == sym[4 * q - 3]
                        b == sym[4 * q - 2]
                        c == sym[4 * q - 1]
                        d == sym[4 * q]
                    IN  <<4 * a + b \div 16, 16 * (b % 16) + c \div 4, 64 * (c % 4) + d>>
        Full == [i \in 1..(3 * quads) |-> Group((i + 2) \div 3)[((i - 1) % 3) + 1]]
        last == 4 * quads
        Tail2 == <<4 * sym[last + 1] + sym[last + 2] \div 16>>
        Tail3 == Tail2 \o <<16 * (sym[last + 2] % 16) + sym[last + 3] \div 4>>
    IN  IF n % 4 # 0 THEN Err("InvalidPadding")
        ELSE IF \E i \in 1..(n - pad) : sym[i] < 0 THEN Err("InvalidByte")
        ELSE IF rest = 2 /\ sym[last + 2] % 16 # 0 THEN Err("InvalidLastSymbol")
        ELSE IF rest = 3 /\ sym[last + 3] % 4 # 0 THEN Err("InvalidLastSymbol")
        ELSE Ok(Full \o (CASE rest = 2 -> Tail2 [] rest = 3 -> Tail3 [] OTHER -> <<>>))

RECURSIVE to_string(_), EntriesToString(_)
\* serde_json::to_string: an object is written with its entries in the
\* order of the map.
to_string(value) ==
    IF value.j = "String" THEN <<[tok |-> "string", text |-> value.s]>>
    ELSE <<[tok |-> "{"]>> \o EntriesToString(value.m) \o <<[tok |-> "}"]>>

EntriesToString(m) ==
    IF m = <<>> THEN <<>>
    ELSE <<[tok |-> "key", name |-> Head(m)[1]], [tok |-> ":"]>> \o to_string(Head(m)[2])
         \o (IF Len(m) > 1 THEN <<[tok |-> ","]>> ELSE <<>>) \o EntriesToString(Tail(m))

Panic(at) == [panicked |-> TRUE, at |-> at]

Response(body) == [panicked |-> FALSE, body |-> body]

\* Mutant: the handler passes the hint V0.
schema2json_hint_v0(data) ==
    LET bytes == Base64Decode(data)
        schema == parse_schema(Some("V0"), bytes.v)
        json == schema_to_json(schema.v)
    IN  IF ~bytes.ok THEN Panic("decode")
        ELSE IF ~schema.ok THEN Panic("parse_schema")
        ELSE IF ~json.ok THEN Panic("schema_to_json")
        ELSE Response(to_string(json.v))

\* Every step is unwrapped: an error at any of them panics.
schema2json(data) ==
    LET bytes == Base64Decode(data)
        schema == parse_schema(None, bytes.v)
        json == schema_to_json(schema.v)
    IN  IF ~bytes.ok THEN Panic("decode")
        ELSE IF ~schema.ok THEN Panic("parse_schema")
        ELSE IF ~json.ok THEN Panic("schema_to_json")
        ELSE Response(to_string(json.v))

(***************************************************************************)
(* Schemas on the wire: the encoding that Deserial reads back.  A map is   *)
(* written as its entries in the order given, which need not be key order. *)
(***************************************************************************)
U32(n) == <<n % 256, (n \div 256) % 256, (n \div 65536) % 256, (n \div 16777216) % 256>>

IndexOf(seq, x) == CHOOSE i \in 1..Len(seq) : seq[i] = x

Fields(g, r) ==
    CASE g = "FunctionV1" -> <<r.parameter, r.return_value>>
      [] g = "FunctionV2" -> <<r.parameter, r.return_value, r.error>>
      [] g = "ContractV0" -> <<r.init, r.state, r.receive>>
      [] g \in {"ContractV1", "ContractV2"} -> <<r.init, r.receive>>
      [] g = "ContractV3" -> <<r.init, r.event, r.receive>>
      [] OTHER -> r

TypeFields(t) ==
    CASE t.tag = "Pair" -> <<t.fst, t.snd>>
      [] t.tag \in {"List", "Set"} -> <<t.size, t.elem>>
      [] t.tag = "Map" -> <<t.size, t.key, t.value>>
      [] t.tag = "Array" -> <<t.len, t.elem>>
      [] t.tag = "Struct" -> <<t.fields>>
      [] t.tag \in {"Enum", "TaggedEnum"} -> <<t.variants>>
      [] t.tag \in {"String", "ContractName", "ReceiveName", "ByteList"} -> <<t.size>>
      [] t.tag \in {"ULeb128", "ILeb128"} -> <<t.constraint>>
      [] t.tag = "ByteArray" -> <<t.len>>
      [] OTHER -> <<>>

RECURSIVE Serial(_, _), SerialAll(_, _), SerialEach(_, _), SerialEntries(_, _)
Serial(T, x) ==
    CASE T.g = "u8" -> <<x>>
      [] T.g = "u32" -> U32(x)
      [] T.g = "String" -> U32(Len(x)) \o x
      [] T.g = "SizeLength" -> <<IndexOf(<<"U8", "U16", "U32">>, x) - 1>>
      [] T.g = "Option" -> IF x.some THEN <<1>> \o Serial(T.of, x.v) ELSE <<0>>
      [] T.g = "Vec" -> U32(Len(x)) \o SerialEach(T.of, x)
      [] T.g = "Map" -> U32(Len(x)) \o SerialEntries(T.of, x)
      [] T.g = "Fields" ->
           (CASE x.fields = "Named" -> <<0>> \o Serial(Of("Vec", Kind("Named")), x.list)
              [] x.fields = "Unnamed" -> <<1>> \o Serial(Of("Vec", Kind("Type")), x.list)
              [] x.fields = "None" -> <<2>>)
      [] T.g = "Type" ->
           <<IndexOf(TypeTags, x.tag) - 1>> \o SerialAll(TypeLayout(x.tag), TypeFields(x))
      [] T.g = "Module" -> Serial(Of("Map", T.of), x.contracts)
      [] OTHER -> SerialAll(Layout(T.g), Fields(T.g, x))

SerialAll(Ts, xs) ==
    IF Ts = <<>> THEN <<>>
    ELSE Serial(Head(Ts), Head(xs)) \o SerialAll(Tail(Ts), Tail(xs))

SerialEach(T, xs) ==
    IF xs = <<>> THEN <<>> ELSE Serial(T, Head(xs)) \o SerialEach(T, Tail(xs))

SerialEntries(T, m) ==
    IF m = <<>> THEN <<>>
    ELSE Serial(Kind("String"), Head(m)[1]) \o Serial(T, Head(m)[2])
         \o SerialEntries(T, Tail(m))

\* Two contracts of each generation as they may stand on the wire: an empty
\* one, and one with every field and its entrypoints out of key order.
WireStruct ==
    [tag |-> "Struct",
     fields |-> [fields |-> "Named",
                 list |-> <<<<<<97>>, Prim("U64")>>,
                            <<<<98>>, [tag |-> "ByteArray", len |-> 32]>>>>]]

WireEnum ==
    [tag |-> "TaggedEnum",
     variants |-> <<<<9, <<98>>, [fields |-> "Unnamed", list |-> <<Prim("Bool")>>]>>,
                    <<5, <<97>>, [fields |-> "None"]>>>>]

WirePair ==
    [tag |-> "Pair", fst |-> [tag |-> "Map", size |-> "U8", key |-> Prim("AccountAddress"),
                              value |-> Prim("Amount")],
     snd |-> [tag |-> "ULeb128", constraint |-> 5]]

WireFunctionV1 == [parameter |-> Some(WireStruct), return_value |-> None]

WireFunctionV2 ==
    [parameter |-> None, return_value |-> Some(Prim("I128")), error |-> Some(WireEnum)]

WireContracts(g) ==
    CASE g = "ContractV0" ->
           {[init |-> None, state |-> None, receive |-> <<>>],
            [init |-> Some(Prim("Unit")), state |-> Some(WirePair),
             receive |-> <<<<<<98>>, Prim("Unit")>>, <<<<97, 98>>, WireEnum>>>>]}
      [] g = "ContractV1" ->
           {[init |-> None, receive |-> <<>>],
            [init |-> Some(WireFunctionV1),
             receive |-> <<<<<<98>>, [parameter |-> None, return_value |-> Some(Prim("U8"))]>>,
                           <<<<97>>, WireFunctionV1>>>>]}
      [] g = "ContractV2" ->
           {[init |-> None, receive |-> <<>>],
            [init |-> Some(WireFunctionV2),
             receive |-> <<<<<<98, 97>>, WireFunctionV2>>,
                           <<<<98>>, [parameter |-> None, return_value |-> None,
                                      error |-> None]>>>>]}
      [] g = "ContractV3" ->
           {[init |-> None, event |-> None, receive |-> <<>>],
            [init |-> Some(WireFunctionV2), event |-> Some(Prim("U8")),
             receive |-> <<<<<<97>>, WireFunctionV2>>>>]}

\* Up to two named contracts in any order, the same name twice included.
WireModules(g) ==
    LET entry == {<<n, c>> : n \in {<<97>>, <<98>>}, c \in WireContracts(g)}
    IN  {[contracts |-> <<>>]}
        \cup {[contracts |-> <<e>>] : e \in entry}
        \cup {[contracts |-> <<e, f>>] : e \in entry, f \in entry}

ContractKinds == <<"ContractV0", "ContractV1", "ContractV2", "ContractV3">>

\* Version-tagged streams of the four generations and of an unknown fifth,
\* and legacy streams: module bodies with nothing before them.
Streams ==
    UNION {{<<255, 255, i - 1>> \o Serial(Of("Module", Kind(ContractKinds[i])), m) :
              m \in WireModules(ContractKinds[i])} : i \in 1..4}
    \cup {<<255, 255, 4>> \o Serial(Of("Module", Kind("ContractV0")), m) :
            m \in WireModules("ContractV0")}
    \cup UNION {{Serial(Of("Module", Kind(ContractKinds[i])), m) :
                   m \in WireModules(ContractKinds[i])} : i \in 1..2}

\* Every stream, whole and cut short at every place.
ByteInputs == UNION {{SubSeq(e, 1, n) : n \in 0..Len(e)} : e \in Streams}

\* The base64 text of a byte string.
Base64Symbol(x) ==
    CASE x < 26 -> x + 65
      [] x < 52 -> x + 71
      [] x < 62 -> x - 4
      [] x = 62 -> 43
      [] OTHER -> 47

RECURSIVE Base64Encode(_)
Base64Encode(b) ==
    CASE Len(b) = 0 -> <<>>
      [] Len(b) = 1 ->
           <<Base64Symbol(b[1] \div 4), Base64Symbol(16 * (b[1] % 4)), 61, 61>>
      [] Len(b) = 2 ->
           <<Base64Symbol(b[1] \div 4), Base64Symbol(16 * (b[1] % 4) + b[2] \div 16),
             Base64Symbol(4 * (b[2] % 16)), 61>>
      [] OTHER ->
           <<Base64Symbol(b[1] \div 4), Base64Symbol(16 * (b[1] % 4) + b[2] \div 16),
             Base64Symbol(4 * (b[2] % 16) + b[3] \div 64), Base64Symbol(b[3] % 64)>>
           \o Base64Encode(SubSeq(b, 4, Len(b)))

\* Request bodies: the base64 text of every byte input, and for the whole
\* streams that text with its last symbol dropped, with a symbol outside the
\* alphabet in front, and with a last symbol that leaves bits over.
Requests ==
    {Base64Encode(b) : b \in ByteInputs}
    \cup {SubSeq(Base64Encode(e), 1, Len(Base64Encode(e)) - 1) : e \in Streams}
    \cup {<<33>> \o SubSeq(Base64Encode(e), 2, Len(Base64Encode(e))) : e \in Streams}
    \cup {Base64Encode(e) \o <<47, 47, 47, 61>> : e \in Streams}

(***************************************************************************)
(* The state: one call of one operation, and what it returned.             *)
(***************************************************************************)
VARIABLES call, ret

vars == <<call, ret>>

Pending == [pending |-> TRUE]

Init ==
    /\ ret = Pending
    /\ \/ \E t \in Types : call = [op |-> "type_to_json", arg |-> t]
       \/ \E f \in FunctionsV1 : call = [op |-> "function_v1_schema", arg |-> f]
       \/ \E f \in FunctionsV2 : call = [op |-> "function_v2_schema", arg |-> f]
       \/ \E c \in ContractsV0 : call = [op |-> "schema_to_json_v0", arg |-> c]
       \/ \E c \in ContractsV1 : call = [op |-> "schema_to_json_v1", arg |-> c]
       \/ \E c \in ContractsV2 : call = [op |-> "schema_to_json_v2", arg |-> c]
       \/ \E c \in ContractsV3 : call = [op |-> "schema_to_json_v3", arg |-> c]
       \/ \E m \in Modules : call = [op |-> "schema_to_json", arg |-> m]
       \/ \E wv \in Opt(WasmVersions), b \in ByteInputs :
            call = [op |-> "parse_schema", wasm_version |-> wv, bytes |-> b]
       \/ \E d \in Requests : call = [op |-> "schema2json", data |-> d]

Returns(op, result) ==
    /\ ret = Pending
    /\ call.op = op
    /\ ret' = result
    /\ UNCHANGED call

TypeToJson == Returns("type_to_json", type_to_json(call.arg))

FunctionV1Schema == Returns("function_v1_schema", function_v1_schema(call.arg))

FunctionV2Schema == Returns("function_v2_schema", function_v2_schema(call.arg))

SchemaToJsonV0 == Returns("schema_to_json_v0", schema_to_json_v0(call.arg))

SchemaToJsonV1 == Returns("schema_to_json_v1", schema_to_json_v1(call.arg))

SchemaToJsonV2 == Returns("schema_to_json_v2", schema_to_json_v2(call.arg))

SchemaToJsonV3 == Returns("schema_to_json_v3", schema_to_json_v3(call.arg))

SchemaToJson == Returns("schema_to_json", schema_to_json(call.arg))

ParseSchema == Returns("parse_schema", parse_schema(call.wasm_version, call.bytes))

Schema2Json == Returns("schema2json", schema2json(call.data))

Next ==
    \/ TypeToJson
    \/ FunctionV1Schema
    \/ FunctionV2Schema
    \/ SchemaToJsonV0
    \/ SchemaToJsonV1
    \/ SchemaToJsonV2
    \/ SchemaToJsonV3
    \/ SchemaToJson
    \/ ParseSchema
    \/ Schema2Json

Spec == Init /\ [][Next]_vars

(***************************************************************************)
(* Properties.                                                             *)
(***************************************************************************)
Returned(op) == call.op = op /\ ret # Pending

MissingVersionHint ==
    Err("Legacy unversioned schema was supplied, but no version was provided.")

Legacy(bytes) == ~starts_with(bytes, VERSIONED_SCHEMA_MAGIC_HASH)

\* C1: for bytes that do not start with 0xFF 0xFF, parse_schema without a
\* hint fails with the missing-version error; with hint V0 (V1) the bytes are
\* decoded as a V0 (V1) module body and a success is the V0 (V1) variant; a
\* legacy stream never yields a V2 or V3 module.
C1_LegacyNeedsHint ==
    (Returned("parse_schema") /\ Legacy(call.bytes)) =>
        /\ ~call.wasm_version.some => ret = MissingVersionHint
        /\ call.wasm_version.some =>
             /\ ret = LegacyAs(call.wasm_version.v, call.bytes)
             /\ ret.ok => ret.v.version = call.wasm_version.v
        /\ ret.ok => ret.v.version \notin {"V2", "V3"}

\* A legacy stream that holds a V0 module with a contract, parsed with no
\* hint: the call failed with the missing-version error.
C1_Witness ==
    /\ Returned("parse_schema")
    /\ Legacy(call.bytes)
    /\ call.wasm_version = None
    /\ ret = MissingVersionHint
    /\ LegacyAs("V0", call.bytes).ok
    /\ LegacyAs("V0", call.bytes).v.contracts # <<>>

\* C2: for bytes that start with 0xFF 0xFF the outcome of parse_schema is the
\* same under the hints None, V0 and V1, and the generation of a success is
\* the one the tag byte of the stream names.
C2_TaggedIgnoresHint ==
    (Returned("parse_schema") /\ ~Legacy(call.bytes)) =>
        /\ \A wv \in Opt(WasmVersions) : parse_schema(wv, call.bytes) = ret
        /\ ret.ok => /\ call.bytes[3] \in 0..3
                     /\ ret.v.version = <<"V0", "V1", "V2", "V3">>[call.bytes[3] + 1]

\* A tagged V3 stream with a contract, parsed with the hint V0: a V3 module.
C2_Witness ==
    /\ Returned("parse_schema")
    /\ ~Legacy(call.bytes)
    /\ call.wasm_version = Some("V0")
    /\ ret.ok
    /\ ret.v.version = "V3"
    /\ ret.v.contracts # <<>>

KeyKind == <<107, 105, 110, 100>>

\* The discriminant string of a variant.
Discriminant(tag) ==
    CASE tag = "Unit" -> "unit"
      [] tag = "Bool" -> "bool"
      [] tag = "U8" -> "u8"
      [] tag = "U16" -> "u16"
      [] tag = "U32" -> "u32"
      [] tag = "U64" -> "u64"
      [] tag = "U128" -> "u128"
      [] tag = "I8" -> "i8"
      [] tag = "I16" -> "i16"
      [] tag = "I32" -> "i32"
      [] tag = "I64" -> "i64"
      [] tag = "I128" -> "i128"
      [] tag = "Amount" -> "amount"
      [] tag = "AccountAddress" -> "account_address"
      [] tag = "ContractAddress" -> "contract_address"
      [] tag = "Timestamp" -> "timestamp"
      [] tag = "Duration" -> "duration"
      [] tag = "Pair" -> "pair"
      [] tag = "List" -> "list"
      [] tag = "Set" -> "set"
      [] tag = "Map" -> "map"
      [] tag = "Array" -> "array"
      [] tag = "Struct" -> "struct"
      [] tag = "Enum" -> "enum"
      [] tag = "String" -> "string"
      [] tag = "ContractName" -> "contract_name"
      [] tag = "ReceiveName" -> "receive_name"
      [] tag = "ULeb128" -> "uleb128"
      [] tag = "ILeb128" -> "ileb128"
      [] tag = "ByteList" -> "byte_list"
      [] tag = "ByteArray" -> "byte_array"
      [] tag = "TaggedEnum" -> "tagged_enum"

\* C3: for every Type the projection returns, without error, a JSON value
\* that has a kind field equal to the variant's discriminant string.
C3_KindField ==
    Returned("type_to_json") =>
        /\ ret.ok
        /\ ret.v.j = "Object"
        /\ MapHas(ret.v.m, KeyKind)
        /\ MapGet(ret.v.m, KeyKind) = JString(Discriminant(call.arg.tag))

\* C4: a primitive projects to its bare discriminant string; a composite
\* projects to an object that holds the discriminant, and no other composite
\* type projects to the same value.
C4_CompositeParameters ==
    Returned("type_to_json") =>
        /\ ret.ok
        /\ call.arg.tag \in PrimitiveTags => ret.v = JString(Discriminant(call.arg.tag))
        /\ call.arg.tag \in CompositeTags =>
             /\ ret.v.j = "Object"
             /\ \E i \in 1..Len(ret.v.m) :
                  ret.v.m[i][2] = JString(Discriminant(call.arg.tag))
             /\ \A t \in Types :
                  (t.tag \in CompositeTags /\ t # call.arg) => type_to_json(t).v # ret.v

\* C5: a function schema projects to an object whose keys are among
\* parameter, returnValue and error; parameter is there iff the schema has a
\* parameter, returnValue iff it has a return value, error iff the schema is
\* of the V2 shape and has an error type; with no field present the object
\* is empty.
C5_FunctionKeys ==
    (Returned("function_v1_schema") \/ Returned("function_v2_schema")) =>
        LET v2 == call.op = "function_v2_schema"
            keys == MapKeySet(ret.v.m)
        IN  /\ ret.ok
            /\ ret.v.j = "Object"
            /\ Len(ret.v.m) = Cardinality(keys)
            /\ keys \subseteq {KeyParameter, KeyReturnValue, KeyError}
            /\ KeyParameter \in keys <=> call.arg.parameter.some
            /\ KeyReturnValue \in keys <=> call.arg.return_value.some
            /\ KeyError \in keys <=> (v2 /\ call.arg.error.some)
            /\ (/\ ~call.arg.parameter.some
                /\ ~call.arg.return_value.some
                /\ v2 => ~call.arg.error.some) => ret.v = EmptyObject

\* A V2 function with an error type and nothing else: the object has the key
\* error alone.
C5_Witness ==
    /\ Returned("function_v2_schema")
    /\ call.arg.error.some
    /\ ~call.arg.parameter.some
    /\ ~call.arg.return_value.some
    /\ MapKeys(ret.v.m) = <<KeyError>>

\* The keys of the projection of contract c of generation ver.
ContractKeysOk(ver, c, object) ==
    LET keys == MapKeySet(object.m)
    IN  /\ object.j = "Object"
        /\ Len(object.m) = Cardinality(keys)
        /\ keys \subseteq {KeyInit, KeyState, KeyEvent, KeyEntrypoints}
        /\ KeyInit \in keys <=> c.init.some
        /\ KeyState \in keys <=> (ver = "V0" /\ c.state.some)
        /\ KeyEvent \in keys <=> (ver = "V3" /\ c.event.some)
        /\ KeyEntrypoints \in keys =>
             /\ MapGet(object.m, KeyEntrypoints).j = "Object"
             /\ MapKeySet(MapGet(object.m, KeyEntrypoints).m) = MapKeySet(c.receive)

\* The generation a contract projection is for.
VersionOf(op) ==
    CASE op = "schema_to_json_v0" -> "V0"
      [] op = "schema_to_json_v1" -> "V1"
      [] op = "schema_to_json_v2" -> "V2"
      [] op = "schema_to_json_v3" -> "V3"

ContractOps ==
    {"schema_to_json_v0", "schema_to_json_v1", "schema_to_json_v2", "schema_to_json_v3"}

\* C6: each contract of each generation projects to an object whose keys are
\* among init, state, event and entrypoints: init iff the contract has an
\* init schema, state only for a V0 contract with a state schema, event only
\* for a V3 contract with an event schema, at the contract level and not
\* among the entrypoints.
C6_ContractKeys ==
    /\ (call.op \in ContractOps /\ ret # Pending) =>
         /\ ret.ok
         /\ ContractKeysOk(VersionOf(call.op), call.arg, ret.v)
    /\ Returned("schema_to_json") =>
         /\ ret.ok
         /\ \A i \in 1..Len(call.arg.contracts) :
              /\ MapHas(ret.v.m, call.arg.contracts[i][1])
              /\ ContractKeysOk(call.arg.version, call.arg.contracts[i][2],
                                MapGet(ret.v.m, call.arg.contracts[i][1]))

\* A V3 module with a contract that has an event schema: the contract's
\* object has the key event.
C6_Witness ==
    /\ Returned("schema_to_json")
    /\ call.arg.version = "V3"
    /\ \E i \in 1..Len(call.arg.contracts) :
         /\ call.arg.contracts[i][2].event.some
         /\ MapHas(MapGet(ret.v.m, call.arg.contracts[i][1]).m, KeyEvent)

Increasing(keys) == \A i \in 1..(Len(keys) - 1) : StrLess(keys[i], keys[i + 1])

\* The entrypoint keys of a projected contract are the keys of its receive
\* map, in their order.
EntrypointKeysOk(c, object) ==
    c.receive # <<>> =>
        /\ MapHas(object.m, KeyEntrypoints)
        /\ MapKeys(MapGet(object.m, KeyEntrypoints).m) = MapKeys(c.receive)
        /\ Increasing(MapKeys(c.receive))

ModuleKeysOk(module, object) ==
    /\ MapKeys(object.m) = MapKeys(module.contracts)
    /\ Increasing(MapKeys(object.m))
    /\ \A i \in 1..Len(module.contracts) :
         EntrypointKeysOk(module.contracts[i][2], object.m[i][2])

\* C7: the JSON of a module has one key per contract name and each
\* entrypoints object one key per entrypoint name, none dropped, repeated or
\* merged, in lexicographic order, whatever the order on the wire.
C7_KeysSorted ==
    /\ (call.op \in ContractOps /\ ret # Pending) => EntrypointKeysOk(call.arg, ret.v)
    /\ Returned("schema_to_json") => ModuleKeysOk(call.arg, ret.v)
    /\ (Returned("parse_schema") /\ ret.ok) =>
         ModuleKeysOk(ret.v, schema_to_json(ret.v).v)

\* A tagged V0 stream with the contracts b and a in that order, b with the
\* entrypoints b and ab in that order: the JSON has the keys a, b and the
\* entrypoints ab, b.
C7_Witness ==
    /\ Returned("parse_schema")
    /\ ret.ok
    /\ \E m \in WireModules("ContractV0") :
         /\ call.bytes = <<255, 255, 0>> \o Serial(Of("Module", Kind("ContractV0")), m)
         /\ MapKeys(m.contracts) = <<<<98>>, <<97>>>>
         /\ MapKeys(m.contracts[1][2].receive) = <<<<98>>, <<97, 98>>>>
    /\ MapKeys(schema_to_json(ret.v).v.m) = <<<<97>>, <<98>>>>
    /\ MapKeys(MapGet(MapGet(schema_to_json(ret.v).v.m, <<98>>).m, KeyEntrypoints).m)
         = <<<<97, 98>>, <<98>>>>

IsPrefix(p, q) == Len(p) <= Len(q) /\ SubSeq(q, 1, Len(p)) = p

\* The tagged streams, and whether bytes is one of them cut short.
TaggedStreams == {e \in Streams : ~Legacy(e)}

CutShort(bytes) ==
    \E e \in TaggedStreams : Len(bytes) < Len(e) /\ IsPrefix(bytes, e)

\* The projection of one contract of generation ver.
ContractJson(ver, c) ==
    CASE ver = "V0" -> schema_to_json_v0(c)
      [] ver = "V1" -> schema_to_json_v1(c)
      [] ver = "V2" -> schema_to_json_v2(c)
      [] ver = "V3" -> schema_to_json_v3(c)

\* C8: parse_schema returns a whole module or an error and schema_to_json
\* the JSON of the whole module or an error: a stream cut short before its
\* end is an error, an error carries no module, a success has every contract
\* the stream counts, and the JSON has every contract with the projection of
\* that contract, none replaced by a default.
C8_FailsClosed ==
    /\ Returned("parse_schema") =>
         /\ DOMAIN ret = (IF ret.ok THEN {"ok", "v"} ELSE {"ok", "e"})
         /\ (~Legacy(call.bytes) /\ CutShort(call.bytes)) => ~ret.ok
         /\ (~Legacy(call.bytes) /\ ~from_bytes(Kind("VersionedModuleSchema"), call.bytes).ok)
              => ~ret.ok
         /\ (~Legacy(call.bytes) /\ ret.ok) =>
              Len(ret.v.contracts) = Deserial(Kind("u32"), call.bytes, 4).v
    /\ Returned("schema_to_json") =>
         /\ DOMAIN ret = (IF ret.ok THEN {"ok", "v"} ELSE {"ok", "e"})
         /\ ret.ok <=> \A i \in 1..Len(call.arg.contracts) :
                          ContractJson(call.arg.version, call.arg.contracts[i][2]).ok
         /\ ret.ok =>
              /\ Len(ret.v.m) = Len(call.arg.contracts)
              /\ \A i \in 1..Len(call.arg.contracts) :
                   ret.v.m[i] = <<call.arg.contracts[i][1],
                                  ContractJson(call.arg.version, call.arg.contracts[i][2]).v>>

\* A tagged stream of two contracts cut after its first contract was read
\* whole: the call failed.
C8_Witness ==
    /\ Returned("parse_schema")
    /\ ~ret.ok
    /\ \E i \in 1..4 : \E m \in WireModules(ContractKinds[i]) :
         LET e == <<255, 255, i - 1>> \o Serial(Of("Module", Kind(ContractKinds[i])), m)
             first == <<255, 255, i - 1>>
                      \o Serial(Of("Module", Kind(ContractKinds[i])),
                                [contracts |-> <<m.contracts[1]>>])
         IN  /\ Len(m.contracts) = 2
             /\ m.contracts[1][1] # m.contracts[2][1]
             /\ IsPrefix(call.bytes, e)
             /\ Len(call.bytes) < Len(e)
             /\ Len(call.bytes) >= Len(first)

\* C9: a contract of any generation projects with the key entrypoints iff
\* its receive map is not empty; with no init, state, event or entrypoint it
\* projects to the empty object.
C9_EntrypointsIffNonEmpty ==
    (call.op \in ContractOps /\ ret # Pending) =>
        /\ ret.ok
        /\ MapHas(ret.v.m, KeyEntrypoints) <=> call.arg.receive # <<>>
        /\ (/\ ~call.arg.init.some
            /\ call.arg.receive = <<>>
            /\ call.op = "schema_to_json_v0" => ~call.arg.state.some
            /\ call.op = "schema_to_json_v3" => ~call.arg.event.some) => ret.v = EmptyObject

\* A V1 contract with an init schema and no entrypoint: the object has the
\* key init alone.
C9_Witness ==
    /\ Returned("schema_to_json_v1")
    /\ call.arg.init.some
    /\ call.arg.receive = <<>>
    /\ MapKeys(ret.v.m) = <<KeyInit>>

\* C10: the handler returns a response exactly when the body is valid
\* base64 of bytes that start with 0xFF 0xFF and decode as a version-tagged
\* module; for every other body it panics, so no legacy schema is converted.
C10_HandlerNoHint ==
    Returned("schema2json") =>
        LET bytes == Base64Decode(call.data)
        IN  /\ ~ret.panicked <=>
                 /\ bytes.ok
                 /\ ~Legacy(bytes.v)
                 /\ from_bytes(Kind("VersionedModuleSchema"), bytes.v).ok
            /\ (bytes.ok /\ Legacy(bytes.v)) => ret = Panic("parse_schema")

\* The base64 text of a legacy stream that holds a V1 module with a
\* contract: the handler panicked in parse_schema.
C10_Witness ==
    /\ Returned("schema2json")
    /\ ret = Panic("parse_schema")
    /\ Base64Decode(call.data).ok
    /\ Legacy(Base64Decode(call.data).v)
    /\ LegacyAs("V1", Base64Decode(call.data).v).ok
    /\ LegacyAs("V1", Base64Decode(call.data).v).v.contracts # <<>>

=============================================================================
